---- MODULE Spec2Model ----
(***************************************************************************)
(* A model of bot.py: the schedule display (update_embed,                  *)
(* setup_embed_message, on_ready), the notification pings (send_ping) and  *)
(* their clean-up (cleanup_ping_messages).                                 *)
(*                                                                         *)
(* Every handler is a coroutine: it runs without interruption from one     *)
(* await to the next, so each action below is one such stretch of code.    *)
(* The sink (the chat channel) answers each call with an outcome the       *)
(* handler cannot choose.                                                  *)
(***************************************************************************)
EXTENDS Integers, Sequences, FiniteSets, TLC

\* ---------------------------------------------------------------- bounds
NumTimers == 2        \* rules of EVENT_SCHEDULE that get a timer in Spec
MaxMsgs == 2          \* messages the bot sends
MaxClock == 2         \* minutes the clock of Spec runs for
UnitsPerSecond == 2   \* instants per second in SpecRender
MaxSkew == 1          \* instants the clock may advance within one render pass
RenderMinutes == 25   \* minutes of the hour that now is drawn from in SpecRender
FnMinutes == 3        \* minutes before and after 02:00 that now is drawn from in SpecFn
MaxCountdown == 3730  \* largest number of seconds format_countdown is given in SpecFn

\* ------------------------------------------------------ program constants
None == 0             \* persistent_message = None
HistoryLimit == 50    \* channel.history(limit=50)
PingTTL == 2          \* timedelta(minutes=2), in minutes
ActiveWindowSec == 120   \* 0 <= time_since_start <= 120
LookbackSec == 7200      \* (now - next_fire).total_seconds() <= 7200
ProbeCount == 120        \* range(1, 121)
SecondsPerMinute == 60
MinutesPerHour == 60

\* CronTrigger.from_crontab("M * * * *"): the minute field is one value, the
\* other four fields match everything
Crontab(m) == [minute |-> {m}, hour |-> "*", day |-> "*", month |-> "*",
               day_of_week |-> "*"]

\* CronTrigger.from_crontab of any rule whose last three fields are "*": the
\* minute field as the set of minutes it matches, the hour field as written,
\* one of "*", "*/2", "*/3"
CronRule(minutes, hours) == [minute |-> minutes, hour |-> hours, day |-> "*",
                             month |-> "*", day_of_week |-> "*"]
\* the hours of the day the hour field of trigger matches
HoursOf(trigger) ==
    LET step == CASE trigger.hour = "*" -> 1
                  [] trigger.hour = "*/2" -> 2
                  [] trigger.hour = "*/3" -> 3
    IN {h \in 0..23 : h % step = 0}

EVENT_SCHEDULE ==
    << [name |-> "Easy Dungeon",      schedule |-> Crontab(0)],
       [name |-> "Medium Dungeon",    schedule |-> Crontab(10)],
       [name |-> "Leaf Raid",         schedule |-> Crontab(15)],
       [name |-> "Hard Dungeon",      schedule |-> Crontab(20)],
       [name |-> "Insane Dungeon",    schedule |-> Crontab(30)],
       [name |-> "Crazy Dungeon",     schedule |-> Crontab(40)],
       [name |-> "Nightmare Dungeon", schedule |-> Crontab(50)] >>

Min(a, b) == IF a <= b THEN a ELSE b
Max(a, b) == IF a >= b THEN a ELSE b
SetMax(S) == CHOOSE x \in S : \A y \in S : y <= x
SetMin(S) == CHOOSE x \in S : \A y \in S : x <= y

\* The rules that have a timer in Spec: the first NumTimers of the table.
TimerNames == {EVENT_SCHEDULE[i].name : i \in 1..Min(NumTimers, Len(EVENT_SCHEDULE))}

\* message ids: 1 for a schedule message of an earlier run, then one per send
MsgIds == 1..(MaxMsgs + 1)
SendFailures == {"Forbidden", "Transient"}
NoResult == [op |-> "none", outcome |-> "none"]
\* what sink_result keeps of an answer: the call, and ok, NotFound or failed
Answer(op, outcome) ==
    [op |-> op, outcome |-> IF outcome \in SendFailures THEN "failed" ELSE outcome]

VARIABLES
    \* --- the program's globals
    persistent_message,    \* the display handle, None or a message id
    active_ping_messages,  \* dict name -> {message, delete_time}, in insertion order
    \* --- the sink: the messages that exist in the channel
    embeds,                \* ids of schedule messages (title "Dungeon & Raid Schedule")
    pings,                 \* ids of notification messages not known to be gone
    nextId,                \* the id the next created message gets
    \* --- tasks.loop(seconds=10) driving update_embed
    loopRunning,           \* Loop.is_running(): the task exists and is not done
    stopNext,              \* Loop._stop_next_iteration
    loopFailed,            \* an exception escaped update_embed and ended its task
    tpc,                   \* where update_embed is suspended
    cl_now, cl_size, cl_pos, cl_msg, messages_to_remove,  \* locals of cleanup_ping_messages
    edit_target,           \* the message persistent_message.edit() was called on
    \* --- on_ready and the scheduler
    opc,                   \* where on_ready is suspended
    schedRunning,          \* scheduler.running
    jobs,                  \* the scheduler's job store: the jobs added, one per id
    readyDone,             \* an on_ready that found the guild has run to its end
    ppc,                   \* per rule: where its send_ping is suspended
    \* --- environment
    clock,                 \* datetime.now(), in minutes
    fire_time,             \* per rule watched: the instant the occurrence being sent fired
    channelFound,          \* client.get_channel(CHANNEL_ID) is not None
    guildFound,            \* client.get_guild(GUILD_ID) is not None
    closed,                \* client.close() was called
    \* --- history (observers, never read by the program)
    attempted,             \* messages delete() was called on
    sentPings,             \* notification messages successfully sent
    sendWhileTracked,      \* a schedule message was sent while a handle was held
    sink_result,           \* the answer to edit, history or send that the step just taken delivered
    purge_start,           \* the table and now at the start of the running purge
    \* --- one render pass of update_embed (lines 122-187), see SpecRender
    now, rclk, ridx, events_info, active_events, upcoming_events, fields, rpc,
    \* --- one call of each pure function on its own, see SpecFn
    fn_rule,               \* cron_str, parsed
    fn_now,                \* what datetime.now() reads in the call
    fn_next,               \* get_next_run_time(cron_str)
    fn_prev,               \* get_previous_run_time(cron_str)
    fn_prev2,              \* get_previous_run_time(cron_str) when now is fn_prev
    fn_secs,               \* the argument of format_countdown, whole seconds
    fn_text,               \* format_countdown(fn_secs)
    fpc                    \* which calls were made

botVars == << persistent_message, active_ping_messages, embeds, pings, nextId,
              loopRunning, stopNext, loopFailed, tpc, cl_now, cl_size, cl_pos, cl_msg,
              messages_to_remove, edit_target, opc, schedRunning, jobs, readyDone,
              ppc, fire_time, clock, channelFound, guildFound, closed,
              attempted, sentPings, sendWhileTracked, sink_result, purge_start >>
renderVars == << now, rclk, ridx, events_info, active_events, upcoming_events, fields, rpc >>
fnVars == << fn_rule, fn_now, fn_next, fn_prev, fn_prev2, fn_secs, fn_text, fpc >>
vars == << botVars, renderVars, fnVars >>

\* ------------------------------------------------- the dict of pending pings
Keys(d) == {d[i].name : i \in DOMAIN d}
IndexOf(d, k) == CHOOSE i \in DOMAIN d : d[i].name = k
\* d[k] = v: an existing key keeps its position, a new key goes last
DictSet(d, k, v) == IF k \in Keys(d) THEN [d EXCEPT ![IndexOf(d, k)] = v] ELSE Append(d, v)
\* del d[k]
DictDel(d, k) == SelectSeq(d, LAMBDA e : e.name # k)

RECURSIVE DictDelAll(_, _)
DictDelAll(d, ks) == IF ks = << >> THEN d ELSE DictDelAll(DictDel(d, Head(ks)), Tail(ks))

\* cleanup_ping_messages, line 83: the next item at or after pos that is due,
\* 0 when the iteration runs off the end
RECURSIVE FirstDue(_, _, _)
FirstDue(d, pos, t) ==
    IF pos > Len(d) THEN 0
    ELSE IF t >= d[pos].delete_time THEN pos
    ELSE FirstDue(d, pos + 1, t)

\* setup_embed_message, lines 210-215: the newest of the last HistoryLimit
\* messages that is a schedule message of the bot, None when there is none
Recent(limit) ==
    LET all == embeds \cup pings
    IN {m \in all : Cardinality({x \in all : x > m}) < limit}
FindExisting ==
    LET c == Recent(HistoryLimit) \cap embeds
    IN IF c = {} THEN None ELSE SetMax(c)

\* line 217: a new schedule message is sent only when no handle is held
NoHandleMutant(pm) == TRUE
NoHandle(pm) == pm = None

\* line 194: only NotFound takes the recreate branch
IsMissingMutant(outcome) == outcome # "ok"
IsMissing(outcome) == outcome = "NotFound"

\* lines 64-70: the entry is stored only when channel.send returned
PingStoredMutant(outcome) == TRUE
PingStored(outcome) == outcome = "ok"

\* ------------------------------------------------------------- the clock
\* Instants are counted in units of 1/UnitsPerSecond s from an origin that is
\* the start of an hour.
Sec(n) == n * UnitsPerSecond
MinuteUnits == Sec(SecondsPerMinute)
HourUnits == MinuteUnits * MinutesPerHour

\* apscheduler.util.datetime_ceil: up to the next whole second
datetime_ceil(t) ==
    IF t % UnitsPerSecond = 0 THEN t ELSE t + (UnitsPerSecond - (t % UnitsPerSecond))

DayUnits == 24 * HourUnits

\* the instants trigger fires at: second 0 of a minute of its minute field, in
\* an hour of its hour field
IsFireTime(trigger, t) ==
    /\ t % MinuteUnits = 0
    /\ ((t \div MinuteUnits) % MinutesPerHour) \in trigger.minute
    /\ ((t \div HourUnits) % 24) \in HoursOf(trigger)

\* trigger.get_next_fire_time(None, t): the first fire time at or after
\* datetime_ceil(t)
NextFireTime(trigger, t) ==
    LET c == datetime_ceil(t)
        \* the fire times repeat every hour, or every day when the hour field
        \* is not "*"
        period == IF trigger.hour = "*" THEN HourUnits ELSE DayUnits
        offsets == IF trigger.hour = "*"
                   THEN {m * MinuteUnits : m \in trigger.minute}
                   ELSE {h * HourUnits + m * MinuteUnits :
                             h \in HoursOf(trigger), m \in trigger.minute}
        cand(off) == LET r == (c + period - off) % period
                     IN IF r = 0 THEN c ELSE c + (period - r)
    IN SetMin({cand(off) : off \in offsets})

\* get_next_run_time (lines 38-42), t the instant its datetime.now() reads
get_next_run_time(trigger, t) == NextFireTime(trigger, t)

\* get_previous_run_time (lines 44-56), t the instant its datetime.now() reads.
\* One probe (lines 50-54): the fire time it returns, None when the test of
\* line 53 fails
PreviousProbe(trigger, t, minutes_back) ==
    LET next_fire == NextFireTime(trigger, t - minutes_back * MinuteUnits)
    IN IF next_fire # None /\ next_fire <= t /\ t - next_fire <= Sec(LookbackSec)
       THEN next_fire
       ELSE None
\* the loop of line 49 over minutes_back = lo..hi: the first probe that
\* returns, in order (the range is halved to keep the evaluation shallow)
RECURSIVE FirstProbe(_, _, _, _)
FirstProbe(trigger, t, lo, hi) ==
    IF lo = hi THEN PreviousProbe(trigger, t, lo)
    ELSE LET mid == (lo + hi) \div 2
             early == FirstProbe(trigger, t, lo, mid)
         IN IF early # None THEN early ELSE FirstProbe(trigger, t, mid + 1, hi)
get_previous_run_time(trigger, t) == FirstProbe(trigger, t, 1, ProbeCount)

\* format_countdown (lines 97-112), seconds given in units
format_countdownMutant(x) ==
    IF x <= 0 THEN "0s"
    ELSE IF x >= Sec(60)
    THEN ToString(x \div Sec(60)) \o "m "
             \o ToString((x % Sec(60)) \div UnitsPerSecond) \o "s"
    ELSE ToString(x \div UnitsPerSecond) \o "s"
format_countdown(x) ==
    IF x <= 0 THEN "0s"
    ELSE IF x >= Sec(3600)
    THEN ToString(x \div Sec(3600)) \o "h "
             \o ToString((x % Sec(3600)) \div Sec(60)) \o "m "
             \o ToString((x % Sec(60)) \div UnitsPerSecond) \o "s"
    ELSE IF x >= Sec(60)
    THEN ToString(x \div Sec(60)) \o "m "
             \o ToString((x % Sec(60)) \div UnitsPerSecond) \o "s"
    ELSE ToString(x \div UnitsPerSecond) \o "s"

\* lines 146-148: the event started at most 120 s before t
IsActiveMutant(e, t) ==
    /\ e.prev_time # None
    /\ 0 <= t - e.prev_time /\ t - e.prev_time < Sec(ActiveWindowSec)
IsActiveWideMutant(e, t) ==
    /\ e.prev_time # None
    /\ 0 <= t - e.prev_time /\ t - e.prev_time <= 5 * Sec(ActiveWindowSec)
IsActive(e, t) ==
    /\ e.prev_time # None
    /\ 0 <= t - e.prev_time /\ t - e.prev_time <= Sec(ActiveWindowSec)

\* line 151
TimeRemainingMutant(e, t) == t - e.prev_time
TimeRemaining(e, t) == Sec(ActiveWindowSec) - (t - e.prev_time)

\* list.sort(key=...): stable, ascending
RECURSIVE InsertByKey(_, _, _)
InsertByKey(sorted, e, key) ==
    IF sorted = << >> THEN << e >>
    ELSE IF e[key] < Head(sorted)[key] THEN << e >> \o sorted
    ELSE << Head(sorted) >> \o InsertByKey(Tail(sorted), e, key)
RECURSIVE SortByKey(_, _)
SortByKey(list, key) ==
    IF list = << >> THEN << >>
    ELSE InsertByKey(SortByKey(SubSeq(list, 1, Len(list) - 1), key), list[Len(list)], key)

\* line 157: active_events.sort(key=lambda x: x["time_remaining"])
ByTimeRemaining(list) == SortByKey(list, "time_remaining")
\* line 159: upcoming_events.sort(key=lambda x: x["next_time"])
ByNextTimeMutant(list) == list
ByNextTime(list) == SortByKey(list, "next_time")

\* ---------------------------------------------------------------- Init
RenderIdle ==
    /\ now = 0 /\ rclk = 0 /\ ridx = 0 /\ events_info = << >>
    /\ active_events = << >> /\ upcoming_events = << >> /\ fields = << >>
    /\ rpc = "off"

InitProgram ==
    /\ persistent_message = None
    /\ active_ping_messages = << >>
    /\ embeds \in {{}, {1}}          \* a schedule message of an earlier run may exist
    /\ pings = {}
    /\ nextId = 2
    /\ loopRunning = FALSE /\ stopNext = FALSE /\ loopFailed = FALSE
    /\ tpc = "sleep"
    /\ cl_now = 0 /\ cl_size = 0 /\ cl_pos = 0 /\ cl_msg = None /\ messages_to_remove = << >>
    /\ edit_target = None
    /\ opc = "idle"
    /\ schedRunning = FALSE /\ jobs = {} /\ readyDone = FALSE
    /\ ppc = [n \in TimerNames |-> "idle"]
    /\ clock = 0
    /\ channelFound \in BOOLEAN /\ guildFound \in BOOLEAN
    /\ closed = FALSE
    /\ attempted = {} /\ sentPings = {} /\ sendWhileTracked = FALSE
    /\ sink_result = NoResult
    /\ purge_start = [table |-> << >>, now |-> 0]

FnIdle ==
    /\ fn_rule = Crontab(0) /\ fn_now = 0 /\ fn_next = None /\ fn_prev = None
    /\ fn_prev2 = None /\ fn_secs = 0 /\ fn_text = "" /\ fpc = "off"

\* no fire is watched
InitBot == InitProgram /\ fire_time = << >>

Init == InitBot /\ RenderIdle /\ FnIdle

\* the fires of every rule are watched
InitTimed == InitProgram /\ fire_time = [n \in TimerNames |-> 0] /\ RenderIdle /\ FnIdle

\* ------------------------------------------------ tasks.Loop around the body
cleanupLocals == << cl_now, cl_size, cl_pos, cl_msg, messages_to_remove >>
ResetCleanup ==
    /\ cl_now' = 0 /\ cl_size' = 0 /\ cl_pos' = 0 /\ cl_msg' = None
    /\ messages_to_remove' = << >>
    /\ purge_start' = [table |-> << >>, now |-> 0]

\* update_embed returned: Loop._loop stops when stop() was called, else sleeps
BodyDone(stop) ==
    /\ tpc' = "sleep"
    /\ stopNext' = FALSE
    /\ loopRunning' = ~stop
    /\ UNCHANGED loopFailed

\* an exception escaped update_embed: Loop._loop re-raises it and the task ends
BodyRaised ==
    /\ tpc' = "sleep"
    /\ stopNext' = FALSE
    /\ loopRunning' = FALSE
    /\ loopFailed' = TRUE

\* ------------------------------------------------------------ update_embed
\* cleanup_ping_messages from the iteration step at pos on, up to the next
\* await: the delete of the next due item, or, past the loop, the removals,
\* the render and the call of persistent_message.edit (line 193).
CleanupFrom(t, size, pos, remove) ==
    IF Len(active_ping_messages) # size
    THEN \* RuntimeError: dictionary changed size during iteration
         /\ BodyRaised
         /\ ResetCleanup
         /\ UNCHANGED << active_ping_messages, attempted, edit_target >>
    ELSE LET idx == FirstDue(active_ping_messages, pos, t) IN
         IF idx # 0
         THEN /\ tpc' = "await_delete"
              /\ cl_now' = t /\ cl_size' = size /\ cl_pos' = idx
              /\ cl_msg' = active_ping_messages[idx].message
              /\ messages_to_remove' = remove
              /\ attempted' = attempted \cup {active_ping_messages[idx].message}
              /\ purge_start' = IF pos = 1 /\ remove = << >> /\ tpc = "sleep"
                                THEN [table |-> active_ping_messages, now |-> t]
                                ELSE purge_start
              /\ UNCHANGED << active_ping_messages, edit_target,
                              loopRunning, stopNext, loopFailed >>
         ELSE /\ active_ping_messages' = DictDelAll(active_ping_messages, remove)
              /\ ResetCleanup
              /\ tpc' = "await_edit"
              /\ edit_target' = persistent_message
              /\ UNCHANGED << attempted, loopRunning, stopNext, loopFailed >>

\* One iteration of the loop starts (lines 117-120).
Tick ==
    /\ ~closed /\ loopRunning /\ tpc = "sleep"
    /\ IF persistent_message = None
       THEN UNCHANGED << active_ping_messages, attempted, edit_target, tpc,
                         loopRunning, stopNext, loopFailed, cleanupLocals, purge_start >>
       ELSE CleanupFrom(clock, Len(active_ping_messages), 1, << >>)
    /\ UNCHANGED << persistent_message, embeds, pings, nextId, opc, schedRunning, jobs, readyDone, ppc, clock, fire_time, channelFound,
                    guildFound, closed, sentPings, sendWhileTracked >>
    /\ sink_result' = NoResult
    /\ UNCHANGED << renderVars, fnVars >>

\* msg_data['message'].delete() returns or raises (lines 85-92): the name is
\* appended in every case, and the iteration goes on. NotFound is the answer
\* when somebody else deleted the notification before.
DeleteReturn(outcome) ==
    /\ ~closed /\ tpc = "await_delete"
    /\ outcome = "ok" => cl_msg \in pings
    /\ pings' = IF outcome \in {"ok", "NotFound"} THEN pings \ {cl_msg} ELSE pings
    /\ sink_result' = NoResult
    /\ CleanupFrom(cl_now, cl_size, cl_pos + 1,
                   Append(messages_to_remove, active_ping_messages[cl_pos].name))
    /\ UNCHANGED << persistent_message, embeds, nextId, opc, schedRunning, jobs, readyDone, ppc, clock, fire_time, channelFound,
                    guildFound, closed, sentPings, sendWhileTracked >>
    /\ UNCHANGED << renderVars, fnVars >>

\* ----------------------------------------------------- setup_embed_message
\* update_embed.start() when the loop is not running (lines 226-227): a new
\* task, with no failure recorded
StartLoopIfIdle ==
    /\ loopRunning' = TRUE
    /\ loopFailed' = FALSE
    /\ UNCHANGED stopNext

\* line 255: the id of the job of a rule
JobIdMutant(name) == "ping_for_"
JobId(name) == "ping_for_" \o name
\* scheduler.add_job(..., id=..., replace_existing=True), lines 251-257: the
\* store holds one job per id
AddJob(store, name) ==
    {j \in store : j.id # JobId(name)} \cup {[id |-> JobId(name), name |-> name]}
\* line 250: the rules of the table from the i-th on, in its order
RECURSIVE AddJobs(_, _)
AddJobs(store, i) ==
    IF i > Min(NumTimers, Len(EVENT_SCHEDULE)) THEN store
    ELSE AddJobs(AddJob(store, EVENT_SCHEDULE[i].name), i + 1)
\* the timers that fire send_ping for rule n
TimersOf(n) == {j \in jobs : j.name = n}
HasTimer(n) == \E j \in jobs : j.name = n

\* setup_embed_message returned to on_ready (lines 248-259): the jobs are
\* added and the scheduler started unless it runs already.
ReadyResume ==
    /\ opc' = "idle"
    /\ readyDone' = TRUE
    /\ IF ~schedRunning
       THEN jobs' = AddJobs(jobs, 1) /\ schedRunning' = TRUE
       ELSE UNCHANGED << jobs, schedRunning >>

\* setup_embed_message returned, in the handler ctx that called it. reached:
\* it got to line 226 (no early return, no exception).
SetupReturn(ctx, reached, stop) ==
    IF ctx = "tick"
    THEN \* inside update_embed the task is running: is_running() is TRUE
         /\ BodyDone(stop)
         /\ UNCHANGED << opc, jobs, readyDone, schedRunning >>
    ELSE /\ ReadyResume
         /\ IF reached /\ ~loopRunning
            THEN StartLoopIfIdle
            ELSE UNCHANGED << loopRunning, stopNext, loopFailed >>
         /\ UNCHANGED tpc

\* lines 205-210: the channel lookup, then the call of channel.history. In
\* update_embed the call follows update_embed.stop() (line 196), which sets
\* _stop_next_iteration because the task is running.
SetupCall(ctx) ==
    IF ~channelFound
    THEN SetupReturn(ctx, FALSE, ctx = "tick")
    ELSE /\ IF ctx = "tick"
            THEN tpc' = "await_history" /\ UNCHANGED opc
            ELSE opc' = "await_history" /\ UNCHANGED tpc
         /\ UNCHANGED << loopRunning, loopFailed, jobs, readyDone, schedRunning >>
         /\ IF ctx = "tick" THEN stopNext' = TRUE ELSE UNCHANGED stopNext

AwaitingIn(ctx, what) == IF ctx = "tick" THEN tpc = what ELSE opc = what

\* channel.history answered (lines 210-228, up to the send of line 223)
HistoryReturn(ctx, outcome) ==
    /\ ~closed /\ AwaitingIn(ctx, "await_history")
    /\ outcome \in {"ok"} \cup SendFailures
    /\ sink_result' = Answer("history", outcome)
    /\ IF outcome = "ok"
       THEN LET found == FindExisting
                pm == IF found # None THEN found ELSE persistent_message
            IN /\ persistent_message' = pm
               /\ IF NoHandle(pm)
                  THEN /\ IF ctx = "tick"
                          THEN tpc' = "await_send" /\ UNCHANGED opc
                          ELSE opc' = "await_send" /\ UNCHANGED tpc
                       /\ sendWhileTracked' = (sendWhileTracked \/ pm # None)
                       /\ UNCHANGED << loopRunning, stopNext, loopFailed, jobs, readyDone,
                                       schedRunning >>
                  ELSE /\ SetupReturn(ctx, TRUE, stopNext)
                       /\ UNCHANGED sendWhileTracked
       ELSE /\ SetupReturn(ctx, FALSE, stopNext)
            /\ UNCHANGED << persistent_message, sendWhileTracked >>
    /\ UNCHANGED << active_ping_messages, embeds, pings, nextId, cleanupLocals,
                    edit_target, ppc, clock, fire_time, channelFound, guildFound, closed, attempted, sentPings,
                    purge_start >>
    /\ UNCHANGED << renderVars, fnVars >>

\* channel.send(embed=embed) answered (lines 223-228)
SendReturn(ctx, outcome) ==
    /\ ~closed /\ AwaitingIn(ctx, "await_send")
    /\ outcome \in {"ok"} \cup SendFailures
    /\ outcome = "ok" => nextId \in MsgIds
    /\ sink_result' = Answer("send", outcome)
    /\ IF outcome = "ok"
       THEN /\ embeds' = embeds \cup {nextId}
            /\ nextId' = nextId + 1
            /\ persistent_message' = nextId
            /\ SetupReturn(ctx, TRUE, stopNext)
       ELSE /\ SetupReturn(ctx, FALSE, stopNext)
            /\ UNCHANGED << embeds, nextId, persistent_message >>
    /\ UNCHANGED << active_ping_messages, pings, cleanupLocals, edit_target,
                    ppc, clock, fire_time, channelFound,
                    guildFound, closed, attempted, sentPings, sendWhileTracked,
                    purge_start >>
    /\ UNCHANGED << renderVars, fnVars >>

\* persistent_message.edit(embed=embed) answered (lines 192-199)
EditReturn(outcome) ==
    /\ ~closed /\ tpc = "await_edit"
    /\ CASE outcome = "ok" -> edit_target \in embeds
         [] outcome = "NotFound" -> edit_target \notin embeds
         [] OTHER -> outcome \in SendFailures
    /\ sink_result' = Answer("edit", outcome)
    /\ IF IsMissing(outcome)
       THEN \* update_embed.stop(), then setup_embed_message()
            SetupCall("tick")
       ELSE /\ BodyDone(stopNext)
            /\ UNCHANGED << opc, jobs, readyDone, schedRunning >>
    /\ edit_target' = None
    /\ UNCHANGED << persistent_message, active_ping_messages, embeds, pings, nextId,
                    cleanupLocals, ppc, clock, fire_time, channelFound, guildFound, closed, attempted, sentPings,
                    sendWhileTracked, purge_start >>
    /\ UNCHANGED << renderVars, fnVars >>

\* ---------------------------------------------------------------- on_ready
OnReady ==
    /\ ~closed /\ opc = "idle"
    /\ IF ~guildFound
       THEN \* lines 241-244: client.close() ends the run
            /\ closed' = TRUE
            /\ UNCHANGED << opc, tpc, loopRunning, stopNext, loopFailed, jobs, readyDone,
                            schedRunning >>
       ELSE /\ SetupCall("ready")
            /\ UNCHANGED closed
    /\ UNCHANGED << persistent_message, active_ping_messages, embeds, pings, nextId,
                    cleanupLocals, edit_target, ppc, clock, fire_time, channelFound, guildFound, attempted, sentPings,
                    sendWhileTracked, purge_start >>
    /\ sink_result' = NoResult
    /\ UNCHANGED << renderVars, fnVars >>

\* ---------------------------------------------------------------- send_ping
\* The timer of rule n fires: send_ping runs up to its channel.send (line 64).
\* The jobs were added with the channel looked up in on_ready; without one,
\* channel.send raises at once and line 74 catches it.
FirePing(n) ==
    /\ ~closed /\ schedRunning /\ HasTimer(n)
    /\ ppc[n] = "idle"
    /\ IF channelFound
       THEN /\ ppc' = [ppc EXCEPT ![n] = "await_send"]
            /\ fire_time' = IF n \in DOMAIN fire_time
                            THEN [fire_time EXCEPT ![n] = clock]
                            ELSE fire_time
       ELSE UNCHANGED << ppc, fire_time >>
    /\ UNCHANGED << persistent_message, active_ping_messages, embeds, pings, nextId,
                    loopRunning, stopNext, loopFailed, tpc, cleanupLocals,
                    edit_target, opc, schedRunning, jobs, readyDone, clock,
                    channelFound, guildFound, closed, attempted,
                    sentPings, sendWhileTracked, purge_start >>
    /\ sink_result' = NoResult
    /\ UNCHANGED << renderVars, fnVars >>

\* channel.send(notification_message) answered (lines 64-75)
PingSendReturn(n, outcome) ==
    /\ ~closed /\ ppc[n] = "await_send"
    /\ outcome \in {"ok"} \cup SendFailures
    /\ outcome = "ok" => nextId \in MsgIds
    /\ sink_result' = Answer("ping", outcome)
    /\ ppc' = [ppc EXCEPT ![n] = "idle"]
    /\ fire_time' = IF n \in DOMAIN fire_time
                    THEN [fire_time EXCEPT ![n] = 0]
                    ELSE fire_time
    /\ IF outcome = "ok"
       THEN /\ pings' = pings \cup {nextId}
            /\ nextId' = nextId + 1
            /\ sentPings' = sentPings \cup {nextId}
       ELSE UNCHANGED << pings, nextId, sentPings >>
    /\ IF PingStored(outcome)
       THEN active_ping_messages' =
                DictSet(active_ping_messages, n,
                        [name |-> n, message |-> nextId,
                         delete_time |-> clock + PingTTL])
       ELSE UNCHANGED active_ping_messages
    /\ UNCHANGED << persistent_message, embeds, loopRunning, stopNext, loopFailed,
                    tpc, cleanupLocals, edit_target, opc, schedRunning,
                    jobs, readyDone, clock, channelFound, guildFound, closed,
                    attempted, sendWhileTracked, purge_start >>
    /\ UNCHANGED << renderVars, fnVars >>

\* -------------------------------------------------------------- environment
\* Somebody else deletes a schedule message of the channel.
ExternalDelete(m) ==
    /\ ~closed
    /\ m \in embeds
    /\ embeds' = embeds \ {m}
    /\ UNCHANGED pings
    /\ UNCHANGED << persistent_message, active_ping_messages, nextId, loopRunning,
                    stopNext, loopFailed, tpc, cleanupLocals, edit_target, opc,
                    schedRunning, jobs, readyDone, ppc, clock, fire_time, channelFound,
                    guildFound, closed, attempted, sentPings, sendWhileTracked, purge_start >>
    /\ sink_result' = NoResult
    /\ UNCHANGED << renderVars, fnVars >>

\* A minute passes. The program reads the clock only to date a ping it stores
\* and to purge the table, so the minutes that pass while no ping is stored or
\* on its way are left out.
AdvanceClock ==
    /\ ~closed /\ clock < MaxClock
    /\ active_ping_messages # << >> \/ \E n \in TimerNames : ppc[n] = "await_send"
    /\ clock' = clock + 1
    /\ UNCHANGED << persistent_message, active_ping_messages, embeds, pings, nextId,
                    loopRunning, stopNext, loopFailed, tpc, cleanupLocals,
                    edit_target, opc, schedRunning, jobs, readyDone, ppc, fire_time, channelFound, guildFound, closed, attempted,
                    sentPings, sendWhileTracked, purge_start >>
    /\ sink_result' = NoResult
    /\ UNCHANGED << renderVars, fnVars >>

\* ------------------------------------- update_embed, lines 122-187: a render
\* The pass reads the clock once for now (line 122) and again inside every
\* get_next_run_time and get_previous_run_time; rclk is the latest reading.
InitRender ==
    /\ now \in Sec(LookbackSec)..(Sec(LookbackSec) + RenderMinutes * MinuteUnits - 1)
    /\ rclk = now /\ ridx = 0 /\ events_info = << >>
    /\ active_events = << >> /\ upcoming_events = << >> /\ fields = << >>
    /\ rpc = "collect"

\* lines 125-134: the next rule of the table
CollectEvent ==
    /\ rpc = "collect" /\ ridx < Len(EVENT_SCHEDULE)
    /\ \E d1 \in 0..MaxSkew, d2 \in 0..MaxSkew :
         /\ d1 <= d2 /\ (rclk - now) + d2 <= MaxSkew
         /\ LET ev == EVENT_SCHEDULE[ridx + 1]
                next_run == get_next_run_time(ev.schedule, rclk + d1)
                prev_run == get_previous_run_time(ev.schedule, rclk + d2)
            IN events_info' =
                   IF next_run # None
                   THEN Append(events_info, [name |-> ev.name, next_time |-> next_run,
                                             prev_time |-> prev_run])
                   ELSE events_info
         /\ rclk' = rclk + d2
    /\ ridx' = ridx + 1
    /\ UNCHANGED << now, active_events, upcoming_events, fields, rpc >>
    /\ UNCHANGED << botVars, fnVars >>

\* lines 142-159: the two lists, each sorted
Classify ==
    /\ rpc = "collect" /\ ridx = Len(EVENT_SCHEDULE)
    /\ LET act == SelectSeq(events_info, LAMBDA e : IsActive(e, now))
           upc == SelectSeq(events_info, LAMBDA e : ~IsActive(e, now))
           withRemaining == [i \in 1..Len(act) |->
                                [name |-> act[i].name, next_time |-> act[i].next_time,
                                 prev_time |-> act[i].prev_time,
                                 time_remaining |-> TimeRemaining(act[i], now)]]
       IN /\ active_events' = ByTimeRemaining(withRemaining)
          /\ upcoming_events' = ByNextTime(upc)
    /\ rpc' = "classified"
    /\ UNCHANGED << now, rclk, ridx, events_info, fields >>
    /\ UNCHANGED << botVars, fnVars >>

\* lines 161-187: one field per event, the active ones first
ActiveField(e) ==
    [name |-> "ACTIVE - " \o e.name,
     value |-> "Join window closes in: " \o format_countdown(Max(0, e.time_remaining))]
UpcomingFieldMutant(i, e) ==
    IF i = 1
    THEN [name |-> "NEXT UP - " \o e.name,
          value |-> "Starts in: " \o format_countdown(e.next_time - now)]
    ELSE [name |-> "SCHEDULED - " \o e.name,
          value |-> "Starts <t:" \o ToString(e.next_time \div UnitsPerSecond) \o ":R>"]
UpcomingField(i, e) ==
    IF i = 1 /\ active_events = << >>
    THEN [name |-> "NEXT UP - " \o e.name,
          value |-> "Starts in: " \o format_countdown(e.next_time - now)]
    ELSE [name |-> "SCHEDULED - " \o e.name,
          value |-> "Starts <t:" \o ToString(e.next_time \div UnitsPerSecond) \o ":R>"]
AddFields ==
    /\ rpc = "classified"
    /\ fields' = [i \in 1..Len(active_events) |-> ActiveField(active_events[i])]
                 \o [i \in 1..Len(upcoming_events) |-> UpcomingField(i, upcoming_events[i])]
    /\ rpc' = "done"
    /\ UNCHANGED << now, rclk, ridx, events_info, active_events, upcoming_events >>
    /\ UNCHANGED << botVars, fnVars >>

\* The bot at rest while a pass is looked at on its own.
BotAtRest == InitBot /\ embeds = {} /\ channelFound /\ guildFound

RenderNext == CollectEvent \/ Classify \/ AddFields

InitRenderPass == BotAtRest /\ InitRender /\ FnIdle

SpecRender == InitRenderPass /\ [][RenderNext]_vars

\* ------------------------------------------- the pure functions, one call each
\* The rules the functions are called with: the hourly rule of the table, a
\* rule of two adjacent minutes, the rule of every minute, and rules of every
\* second and every third hour.
FnRules ==
    { Crontab(0), CronRule({0, 1}, "*"), CronRule(0..59, "*"),
      CronRule({0}, "*/2"), CronRule({0}, "*/3") }

\* 02:00:00 of the second day: every probe of the lookback is after the origin
FnBase == DayUnits + Sec(LookbackSec)
FnInstants == (FnBase - FnMinutes * MinuteUnits)..(FnBase + FnMinutes * MinuteUnits - 1)

InitCron ==
    /\ fn_rule \in FnRules /\ fn_now \in FnInstants
    /\ fn_next = None /\ fn_prev = None /\ fn_prev2 = None
    /\ fn_secs = 0 /\ fn_text = "" /\ fpc = "cron"
InitFormat ==
    /\ fn_rule = Crontab(0) /\ fn_now = 0
    /\ fn_next = None /\ fn_prev = None /\ fn_prev2 = None
    /\ fn_secs \in (0 - ActiveWindowSec)..MaxCountdown /\ fn_text = "" /\ fpc = "format"

\* get_next_run_time(cron_str), lines 38-42
CallNext ==
    /\ fpc = "cron"
    /\ fn_next' = get_next_run_time(fn_rule, fn_now)
    /\ fpc' = "next"
    /\ UNCHANGED << fn_rule, fn_now, fn_prev, fn_prev2, fn_secs, fn_text >>
    /\ UNCHANGED << botVars, renderVars >>

\* get_previous_run_time(cron_str), lines 44-56
CallPrevious ==
    /\ fpc = "next"
    /\ fn_prev' = get_previous_run_time(fn_rule, fn_now)
    /\ fpc' = "previous"
    /\ UNCHANGED << fn_rule, fn_now, fn_next, fn_prev2, fn_secs, fn_text >>
    /\ UNCHANGED << botVars, renderVars >>

\* get_previous_run_time(cron_str) again, at the instant the first call returned
CallPreviousAgain ==
    /\ fpc = "previous" /\ fn_prev # None
    /\ fn_prev2' = get_previous_run_time(fn_rule, fn_prev)
    /\ fpc' = "again"
    /\ UNCHANGED << fn_rule, fn_now, fn_next, fn_prev, fn_secs, fn_text >>
    /\ UNCHANGED << botVars, renderVars >>

\* format_countdown(seconds), lines 97-112
CallFormat ==
    /\ fpc = "format"
    /\ fn_text' = format_countdown(Sec(fn_secs))
    /\ fpc' = "formatted"
    /\ UNCHANGED << fn_rule, fn_now, fn_next, fn_prev, fn_prev2, fn_secs >>
    /\ UNCHANGED << botVars, renderVars >>

InitFn == BotAtRest /\ RenderIdle /\ (InitCron \/ InitFormat)
FnNext == CallNext \/ CallPrevious \/ CallPreviousAgain \/ CallFormat

SpecFn == InitFn /\ [][FnNext]_vars

Outcomes == {"ok", "NotFound", "Forbidden", "Transient"}
Contexts == {"tick", "ready"}

Next ==
    \/ OnReady
    \/ Tick
    \/ \E o \in Outcomes : DeleteReturn(o)
    \/ \E o \in Outcomes : EditReturn(o)
    \/ \E c \in Contexts, o \in Outcomes : HistoryReturn(c, o)
    \/ \E c \in Contexts, o \in Outcomes : SendReturn(c, o)
    \/ \E n \in TimerNames : FirePing(n)
    \/ \E n \in TimerNames, o \in Outcomes : PingSendReturn(n, o)
    \/ \E m \in MsgIds : ExternalDelete(m)
    \/ AdvanceClock

Spec == Init /\ [][Next]_vars

\* the program with the fire of every occurrence on record
SpecTimed == InitTimed /\ [][Next]_vars
\* ===================================================================== claims
Range(s) == {s[i] : i \in DOMAIN s}

\* the step in which update_embed returns from the setup_embed_message it
\* called after a NotFound, the sink having answered every call of it
RecoveryDone ==
    /\ tpc \in {"await_history", "await_send"}
    /\ tpc' = "sleep"
    /\ sink_result'.outcome = "ok"

\* C1: when the recovery that follows a NotFound push completes, the refresh
\* tick goes on: the loop is still running and no exception escaped the handler.
C1_TickResumes == [][RecoveryDone => (loopRunning' /\ ~loopFailed')]_vars

\* C2: after the recovery that follows a NotFound push, the held handle is a
\* schedule message that exists in the channel, never the deleted one.
C2_HandleExistsAfterRecovery == [][RecoveryDone => persistent_message' \in embeds']_vars

\* C3: one handle is held at most, and a schedule message is sent only while
\* no handle is held, whatever the order of on_ready, ticks and recoveries.
C3_SingleArtifact ==
    /\ persistent_message \in {None} \cup MsgIds
    /\ ~sendWhileTracked
    /\ (opc = "await_send" \/ tpc = "await_send") => persistent_message = None

\* C3 witness: on_ready found no schedule message, sent one while it held no
\* handle, and holds it.
C3_Witness ==
    /\ opc = "idle" /\ loopRunning /\ schedRunning
    /\ persistent_message \in embeds
    /\ sink_result = [op |-> "send", outcome |-> "ok"]

\* C4: every notification message sent is cleaned up later, so at any time a
\* sent message either had its delete attempted or is still in the table the
\* Janitor purges from.
C4_SentPingsTracked ==
    \A m \in sentPings :
        \/ m \in attempted
        \/ \E e \in Range(active_ping_messages) : e.message = m

\* C5: no interleaving of a notification fire with a tick makes an exception
\* escape update_embed and end the loop.
C5_NoTickCrash == ~loopFailed

\* the step in which cleanup_ping_messages finishes, and its table and now at
\* its start
PurgeDone == tpc \in {"sleep", "await_delete"} /\ tpc' = "await_edit"
PurgeStart ==
    IF tpc = "sleep" THEN [table |-> active_ping_messages, now |-> clock] ELSE purge_start

\* C6: a purge that runs to completion has attempted the delete of every entry
\* that was due at its start and removed it, and has left every entry that is
\* not due in the table with no delete attempted.
C6_PurgeExact ==
    [][PurgeDone =>
         /\ \A e \in Range(PurgeStart.table) :
                PurgeStart.now >= e.delete_time =>
                    (e.message \in attempted' /\ e \notin Range(active_ping_messages'))
         /\ \A e \in Range(active_ping_messages) :
                PurgeStart.now < e.delete_time =>
                    (e \in Range(active_ping_messages') /\ e.message \notin attempted')
      ]_vars

\* the step in which the push returns with an error other than NotFound
PushFailed ==
    /\ tpc = "await_edit" /\ tpc' # "await_edit"
    /\ sink_result'.outcome = "failed"

\* C7: a push that fails with anything but NotFound leaves the handle and the
\* channel's schedule messages as they were, runs no setup, leaves the loop
\* running and not stopped; and every push goes to the handle held.
C7_OtherFailureRetainsHandle ==
    [][/\ PushFailed =>
            /\ persistent_message' = persistent_message
            /\ embeds' = embeds /\ nextId' = nextId
            /\ tpc' = "sleep" /\ opc' = opc
            /\ loopRunning' /\ ~stopNext' /\ ~loopFailed'
       /\ (tpc # "await_edit" /\ tpc' = "await_edit") =>
            (edit_target' = persistent_message' /\ persistent_message' = persistent_message)
      ]_vars

\* C7 witness: the push has just failed with Forbidden or a transient error
\* while the message was gone from the channel; the handle is held and the
\* loop runs on.
C7_Witness ==
    /\ sink_result = Answer("edit", "Forbidden")
    /\ tpc = "sleep" /\ loopRunning
    /\ persistent_message # None /\ persistent_message \notin embeds

\* C8: a notification send that fails stores nothing and leaves the table as
\* it was, is not sent again, and leaves the scheduler and its jobs running.
C8_FailedSendStoresNothing ==
    [][\A n \in TimerNames :
         /\ (ppc[n] = "await_send" /\ ppc'[n] # "await_send"
                /\ sink_result'.outcome # "ok") =>
              /\ active_ping_messages' = active_ping_messages
              /\ ppc'[n] = "idle"
              /\ jobs' = jobs /\ schedRunning' /\ HasTimer(n)'
              /\ pings' = pings
      ]_vars

\* C8 witness: a send has just failed while another ping is in the table.
C8_Witness ==
    /\ sink_result = Answer("ping", "Transient")
    /\ Len(active_ping_messages) >= 1
    /\ \A n \in TimerNames : ppc[n] = "idle"
    /\ schedRunning

\* the minute of the hour an instant falls in
MinuteOfHour(t) == (t \div MinuteUnits) % MinutesPerHour

\* the latest instant at or before t at which trigger fires, from the calendar
\* alone: the rule's minute in the hour of t, or in the hour before
MostRecentFire(trigger, t) ==
    LET hour == t - (t % HourUnits)
    IN SetMax({IF hour + m * MinuteUnits <= t THEN hour + m * MinuteUnits
               ELSE hour + m * MinuteUnits - HourUnits : m \in trigger.minute})

\* the first instant after t at which trigger fires, from the calendar alone
FollowingFire(trigger, t) == MostRecentFire(trigger, t) + HourUnits

ActiveNames == {e.name : e \in Range(active_events)}
UpcomingNames == {e.name : e \in Range(upcoming_events)}
ActiveEntry(name) == CHOOSE e \in Range(active_events) : e.name = name
UpcomingEntry(name) == CHOOSE e \in Range(upcoming_events) : e.name = name
Classified == rpc \in {"classified", "done"}

\* C9: in a render pass an event is Active exactly when its most recent fire
\* time lies 0 to 120 s before now, both ends included, with remaining =
\* 120 s minus the elapsed time (120 s at elapsed 0, 0 at elapsed 120 s), and
\* Upcoming otherwise (so just past 120 s); every event of the table lands in
\* exactly one of the two groups, once.
C9_ActiveWindow ==
    Classified =>
        /\ Len(active_events) + Len(upcoming_events) = Len(EVENT_SCHEDULE)
        /\ \A i \in DOMAIN EVENT_SCHEDULE :
             LET ev == EVENT_SCHEDULE[i]
                 elapsed == now - MostRecentFire(ev.schedule, now)
             IN /\ (ev.name \in ActiveNames) # (ev.name \in UpcomingNames)
                /\ (ev.name \in ActiveNames) <=>
                       (0 <= elapsed /\ elapsed <= Sec(ActiveWindowSec))
                /\ (ev.name \in ActiveNames) =>
                       ActiveEntry(ev.name).time_remaining = Sec(ActiveWindowSec) - elapsed
                /\ (elapsed = 0) =>
                       (ev.name \in ActiveNames
                            /\ ActiveEntry(ev.name).time_remaining = Sec(ActiveWindowSec))
                /\ (elapsed = Sec(ActiveWindowSec)) =>
                       (ev.name \in ActiveNames /\ ActiveEntry(ev.name).time_remaining = 0)
                /\ (elapsed = Sec(ActiveWindowSec) + 1) => ev.name \in UpcomingNames

\* C9 witness: a pass whose now is exactly 120 s after a fire; the event is
\* shown Active with nothing remaining, next to events that are Upcoming.
C9_Witness ==
    /\ rpc = "done"
    /\ \E e \in Range(active_events) :
           e.time_remaining = 0 /\ now - e.prev_time = Sec(ActiveWindowSec)
    /\ upcoming_events # << >>

\* the rule that fires at minute 0 of every hour
HourlyRule == EVENT_SCHEDULE[1]

\* C10 as stated: for the rule of minute 0, a pass whose now is in minute 1 of
\* the hour shows the event Active with remaining within 30 s of 119 s, and a
\* pass whose now is in minute 3 shows it Upcoming, the next fire 56 to 57
\* minutes ahead.
C10_AsStated ==
    Classified =>
        /\ MinuteOfHour(now) = 1 =>
             /\ HourlyRule.name \in ActiveNames
             /\ ActiveEntry(HourlyRule.name).time_remaining >= Sec(119) - Sec(30)
             /\ ActiveEntry(HourlyRule.name).time_remaining <= Sec(119) + Sec(30)
        /\ MinuteOfHour(now) = 3 =>
             /\ HourlyRule.name \in UpcomingNames
             /\ UpcomingEntry(HourlyRule.name).next_time - now > 56 * MinuteUnits
             /\ UpcomingEntry(HourlyRule.name).next_time - now <= 57 * MinuteUnits

\* C10: for the rule of minute 0, a pass whose now is in minute 1 of the hour
\* shows the event Active with remaining = 120 s minus the time since the
\* hour, which is more than 0 and at most 60 s (119 s remain at second 1 of
\* the hour, not in minute 1); a pass whose now is in minute 3 shows it
\* Upcoming, the next fire being the next hour, 56 to 57 minutes ahead.
C10_HourlyScenario ==
    Classified =>
        LET sinceHour == now % HourUnits
        IN /\ MinuteOfHour(now) = 1 =>
                /\ HourlyRule.name \in ActiveNames
                /\ ActiveEntry(HourlyRule.name).time_remaining
                       = Sec(ActiveWindowSec) - sinceHour
                /\ ActiveEntry(HourlyRule.name).time_remaining > 0
                /\ ActiveEntry(HourlyRule.name).time_remaining <= Sec(60)
           /\ sinceHour = Sec(1) =>
                /\ HourlyRule.name \in ActiveNames
                /\ ActiveEntry(HourlyRule.name).time_remaining = Sec(119)
           /\ MinuteOfHour(now) = 3 =>
                /\ HourlyRule.name \in UpcomingNames
                /\ UpcomingEntry(HourlyRule.name).next_time
                       = FollowingFire(HourlyRule.schedule, now)
                /\ UpcomingEntry(HourlyRule.name).next_time - now > 56 * MinuteUnits
                /\ UpcomingEntry(HourlyRule.name).next_time - now <= 57 * MinuteUnits

\* C10 witness: a finished pass whose now is inside minute 1 of the hour, the
\* hourly event Active with less than a minute remaining.
C10_Witness ==
    /\ rpc = "done"
    /\ MinuteOfHour(now) = 1 /\ now % MinuteUnits # 0
    /\ HourlyRule.name \in ActiveNames
    /\ ActiveEntry(HourlyRule.name).time_remaining < Sec(60)

\* the whole minutes from instant a to instant b, both included
WholeMinutes(a, b) ==
    {k * MinuteUnits : k \in ((a + MinuteUnits - 1) \div MinuteUnits)..(b \div MinuteUnits)}
\* the fire times of trigger from a to b, from the calendar alone
FiresBetween(trigger, a, b) == {t \in WholeMinutes(a, b) : IsFireTime(trigger, t)}

\* C11: get_next_run_time returns a fire time of the rule that is strictly
\* after now, and no fire time of the rule lies after now and before it; also
\* when now is itself a fire time.
C11_NextStrictlyFuture ==
    fpc \in {"next", "previous", "again"} =>
        /\ fn_next # None
        /\ IsFireTime(fn_rule, fn_next)
        /\ fn_next > fn_now
        /\ FiresBetween(fn_rule, fn_now + 1, fn_next - 1) = {}

\* the largest fire time of trigger at or before t and at most 7200 s before
\* it, None when there is none
LatestWithinLookback(trigger, t) ==
    LET fires == FiresBetween(trigger, t - Sec(LookbackSec), t)
    IN IF fires = {} THEN None ELSE SetMax(fires)

\* C12: get_previous_run_time returns the largest fire time of the rule that
\* is at or before now and within 7200 s of it, and none exactly when there is
\* no such fire time.
C12_PreviousIsLatest ==
    fpc \in {"previous", "again"} => fn_prev = LatestWithinLookback(fn_rule, fn_now)

\* the rules that fire at least every 7200 s
PeriodWithinLookback(trigger) == trigger.hour \in {"*", "*/2"}

\* C13: for a rule that fires at least every 7200 s, get_previous_run_time
\* called at the instant it returned returns that instant again.
C13_PreviousFixedPoint ==
    (fpc = "again" /\ PeriodWithinLookback(fn_rule)) => fn_prev2 = fn_prev

\* the countdown text of s whole seconds, from the claim's four cases
CountdownText(secs) ==
    IF secs <= 0 THEN "0s"
    ELSE IF secs < 60 THEN ToString(secs) \o "s"
    ELSE IF secs < 3600
    THEN ToString(secs \div 60) \o "m " \o ToString(secs % 60) \o "s"
    ELSE ToString(secs \div 3600) \o "h " \o ToString((secs % 3600) \div 60) \o "m "
             \o ToString(secs % 60) \o "s"

\* C14: format_countdown of a whole number of seconds is "0s" up to 0, "Ns"
\* below a minute, "Mm Ss" below an hour and "Hh Mm Ss" from an hour on, the
\* parts truncated; 0 gives "0s", 45 "45s", 125 "2m 5s" and 3725 "1h 2m 5s".
C14_CountdownFormat ==
    fpc = "formatted" =>
        /\ fn_text = CountdownText(fn_secs)
        /\ fn_secs = 0 => fn_text = "0s"
        /\ fn_secs = 45 => fn_text = "45s"
        /\ fn_secs = 125 => fn_text = "2m 5s"
        /\ fn_secs = 3725 => fn_text = "1h 2m 5s"
        /\ fn_secs < 0 => fn_text = "0s"

\* C14 witness: format_countdown(3725) has returned "1h 2m 5s".
C14_Witness == fpc = "formatted" /\ fn_secs = 3725 /\ fn_text = "1h 2m 5s"

TableNames == {EVENT_SCHEDULE[i].name : i \in DOMAIN EVENT_SCHEDULE}
\* the sections of the display, as the events they show, top to bottom
SectionEvents == [i \in 1..Len(active_events) |-> active_events[i].name]
                     \o [i \in 1..Len(upcoming_events) |-> upcoming_events[i].name]
Ascending(list, key) ==
    \A i \in 1..(Len(list) - 1) : list[i][key] <= list[i + 1][key]

\* C15: in a rendered display the Active events come first, in ascending
\* order of the time remaining, then the Upcoming events in ascending order of
\* their next fire time, and each rule of the table has exactly one section.
C15_SectionOrder ==
    rpc = "done" =>
        /\ Len(fields) = Len(EVENT_SCHEDULE)
        /\ Len(SectionEvents) = Len(fields)
        /\ Range(SectionEvents) = TableNames
        /\ \A i \in 1..Len(active_events) :
               /\ fields[i].name = "ACTIVE - " \o active_events[i].name
               /\ IsActive(active_events[i], now)
        /\ \A i \in 1..Len(upcoming_events) :
               /\ fields[Len(active_events) + i].name
                      \in {"NEXT UP - " \o upcoming_events[i].name,
                           "SCHEDULED - " \o upcoming_events[i].name}
               /\ ~IsActive(upcoming_events[i], now)
        /\ Ascending(active_events, "time_remaining")
        /\ Ascending(upcoming_events, "next_time")

\* C15 witness: a display with an Active section on top and the Upcoming ones
\* below it in an order that is not the table's: the first rule of the table
\* fires last.
C15_Witness ==
    /\ rpc = "done"
    /\ Len(active_events) = 1
    /\ fields[1].name = "ACTIVE - Medium Dungeon"
    /\ fields[Len(fields)].name = "SCHEDULED - Easy Dungeon"

NextUpLabels == {"NEXT UP - " \o n : n \in TableNames}
NextUpSections == {i \in DOMAIN fields : fields[i].name \in NextUpLabels}

\* C16: in a rendered display "next up" labels exactly one section, that of
\* the Upcoming event with the smallest next fire time, when no event is
\* Active, and no section when an event is Active; every other Upcoming event
\* is labelled "scheduled".
C16_NextUpLabel ==
    rpc = "done" =>
        /\ active_events = << >> =>
               /\ NextUpSections = {1}
               /\ fields[1].name = "NEXT UP - " \o upcoming_events[1].name
               /\ fields[1].value
                      = "Starts in: " \o format_countdown(upcoming_events[1].next_time - now)
               /\ \A e \in Range(upcoming_events) :
                      upcoming_events[1].next_time <= e.next_time
        /\ active_events # << >> => NextUpSections = {}
        /\ \A i \in 1..Len(upcoming_events) :
               (i > 1 \/ active_events # << >>) =>
                   fields[Len(active_events) + i].name
                       = "SCHEDULED - " \o upcoming_events[i].name

\* C16 witness: a display with an Active event, whose six Upcoming sections
\* are all labelled "scheduled".
C16_Witness ==
    /\ rpc = "done"
    /\ active_events # << >>
    /\ NextUpSections = {}
    /\ \A i \in 1..Len(upcoming_events) :
           fields[Len(active_events) + i].name = "SCHEDULED - " \o upcoming_events[i].name

\* C20: with the table's fires at minutes 0, 10, 15, 20, 30, 40 and 50 and the
\* window of 120 s, a render pass classifies at most one event Active and at
\* least six Upcoming.
C20_AtMostOneActive ==
    Classified => (Len(active_events) <= 1 /\ Len(upcoming_events) >= 6)

\* C20 witness: a pass inside the window of the rule of minute 15, five
\* minutes after the rule of minute 10 fired: one Active, six Upcoming.
C20_Witness ==
    /\ Classified
    /\ Len(active_events) = 1 /\ Len(upcoming_events) = 6
    /\ active_events[1].name = "Leaf Raid"
    /\ \E e \in Range(upcoming_events) :
           e.name = "Medium Dungeon" /\ now - e.prev_time <= 6 * MinuteUnits

\* a job store with exactly one timer for every rule, and nothing else
OneTimerPerRule ==
    /\ \A n \in TimerNames : Cardinality(TimersOf(n)) = 1
    /\ Cardinality(jobs) = Cardinality(TimerNames)

\* C17: once an on_ready that found the guild has run to its end, and after
\* any number of further ones, the scheduler runs with exactly one timer per
\* rule, whether or not the setup of the schedule message succeeded; a fire
\* starts one send of its rule at most; before, no timer exists.
C17_OneTimerPerRule ==
    /\ readyDone => (schedRunning /\ OneTimerPerRule)
    /\ schedRunning => (readyDone /\ OneTimerPerRule)
    /\ ~schedRunning => jobs = {}
    /\ \A n \in TimerNames : ppc[n] = "await_send" => Cardinality(TimersOf(n)) = 1

\* C17 witness: a reconnect's on_ready has just ended with its setup failed
\* (the loop runs from an earlier on_ready); each rule has its one timer.
C17_Witness ==
    /\ readyDone /\ opc = "idle" /\ loopRunning
    /\ sink_result = Answer("history", "Forbidden")
    /\ schedRunning /\ OneTimerPerRule

\* C18: the entry stored by a successful send has delete_time = the instant
\* its occurrence fired + 120 s, however long the send took.
C18_DeleteAfterFromFire ==
    [][\A n \in DOMAIN fire_time :
         (ppc[n] = "await_send" /\ ppc'[n] = "idle" /\ sink_result'.outcome = "ok") =>
             \E e \in Range(active_ping_messages') :
                 e.name = n /\ e.delete_time = fire_time[n] + PingTTL
      ]_vars

\* C19: a purge removes an entry only after it attempted the delete of the
\* message the entry holds when it is removed; an entry that replaced another
\* while the purge waited for a delete stays in the table.
C19_RemovedOnlyAfterDelete ==
    [][PurgeDone =>
         \A e \in Range(active_ping_messages) :
             e \notin Range(active_ping_messages') => e.message \in attempted'
      ]_vars
====
